---- MODULE Spec2Model ----
(***************************************************************************)
(* A model of ansible_base/lib/redis/client.py: RedisClient.connect, which *)
(* turns CLIENT_CLASS_KWARGS and a server URL into the keyword arguments   *)
(* of a redis.Redis or DABRedisCluster constructor, and                    *)
(* DABRedisCluster.mget, which falls back to mget_nonatomic on the         *)
(* key-slot error.                                                         *)
(*                                                                         *)
(* Python strings are TLA+ strings; the other Python values are tagged     *)
(* tuples, so that the integer 5 and the string "5" differ.  A dict is a    *)
(* function whose domain is its set of keys.                               *)
(***************************************************************************)
EXTENDS Integers, Sequences, FiniteSets, TLC

VARIABLES
    options,          \* self._params['OPTIONS']['CLIENT_CLASS_KWARGS'], shared by every call
    initial_kwargs,   \* history: CLIENT_CLASS_KWARGS as the client was constructed with
    clustered,        \* self.clustered
    clustered_hosts,  \* self.clustered_hosts
    server,           \* self._server: the parsed server URLs, by index
    threads,          \* the threads calling connect
    frames,           \* per thread: the local state of its connect call
    mget_call         \* the last mget call on a cluster client

vars == <<options, initial_kwargs, clustered, clustered_hosts, server, threads, frames, mget_call>>

----------------------------------------------------------------------------
(* Python values *)

VNone == <<"none">>
VStr(s) == <<"str", s>>
VInt(n) == <<"int", n>>
VBool(b) == <<"bool", b>>
VList(l) == <<"list", l>>

IsStr(v) == v[1] = "str"

\* Python truthiness: bool(v)
Truthy(v) ==
    CASE v[1] = "none" -> FALSE
      [] v[1] = "str" -> v[2] # ""
      [] v[1] = "int" -> v[2] # 0
      [] v[1] = "bool" -> v[2]
      [] v[1] = "list" -> Len(v[2]) > 0
      [] OTHER -> TRUE

(* dict *)
EmptyDict == [k \in {} |-> VNone]
Get(d, k, default) == IF k \in DOMAIN d THEN d[k] ELSE default
Put(d, k, v) == [x \in (DOMAIN d) \cup {k} |-> IF x = k THEN v ELSE d[x]]
Pop(d, k) == [x \in (DOMAIN d) \ {k} |-> d[x]]

(* str *)
RECURSIVE Find(_, _, _)
\* the index (from 1) of the first occurrence of the character sep in s at or after i; 0 when there is none
Find(s, sep, i) ==
    IF i > Len(s) THEN 0
    ELSE IF SubSeq(s, i, i) = sep THEN i
    ELSE Find(s, sep, i + 1)

RECURSIVE Split(_, _)
\* s.split(sep), sep one character
Split(s, sep) ==
    LET i == Find(s, sep, 1)
    IN IF i = 0 THEN <<s>>
       ELSE <<SubSeq(s, 1, i - 1)>> \o Split(SubSeq(s, i + 1, Len(s)), sep)

\* s.split(sep, 1)
SplitOnce(s, sep) ==
    LET i == Find(s, sep, 1)
    IN IF i = 0 THEN <<s>>
       ELSE <<SubSeq(s, 1, i - 1), SubSeq(s, i + 1, Len(s))>>

RECURSIVE Contains(_, _, _)
\* sub in s, searching from index i
Contains(s, sub, i) ==
    IF i + Len(sub) - 1 > Len(s) THEN FALSE
    ELSE IF SubSeq(s, i, i + Len(sub) - 1) = sub THEN TRUE
    ELSE Contains(s, sub, i + 1)

In(sub, s) == Contains(s, sub, 1)

Digits == "0123456789"
IsDigit(c) == Find(Digits, c, 1) # 0
DigitValue(c) == Find(Digits, c, 1) - 1

RECURSIVE LStrip(_)
LStrip(s) == IF Len(s) > 0 /\ SubSeq(s, 1, 1) = " " THEN LStrip(SubSeq(s, 2, Len(s))) ELSE s
RECURSIVE RStrip(_)
RStrip(s) == IF Len(s) > 0 /\ SubSeq(s, Len(s), Len(s)) = " " THEN RStrip(SubSeq(s, 1, Len(s) - 1)) ELSE s

RECURSIVE DigitsValue(_, _, _)
\* the value of the digits of s from index i on, underscores skipped
DigitsValue(s, i, acc) ==
    IF i > Len(s) THEN acc
    ELSE LET c == SubSeq(s, i, i)
         IN DigitsValue(s, i + 1, IF c = "_" THEN acc ELSE 10 * acc + DigitValue(c))

\* int(s): surrounding blanks stripped, an optional sign, then digits with single
\* underscores between them; ok is FALSE where int raises ValueError
ToInt(s) ==
    LET t == RStrip(LStrip(s))
        signed == Len(t) > 0 /\ SubSeq(t, 1, 1) \in {"+", "-"}
        body == IF signed THEN SubSeq(t, 2, Len(t)) ELSE t
        wellFormed ==
            /\ Len(body) > 0
            /\ \A i \in 1..Len(body) :
                  LET c == SubSeq(body, i, i)
                  IN \/ IsDigit(c)
                     \/ /\ c = "_"
                        /\ i > 1
                        /\ i < Len(body)
                        /\ IsDigit(SubSeq(body, i - 1, i - 1))
                        /\ IsDigit(SubSeq(body, i + 1, i + 1))
        magnitude == DigitsValue(body, 1, 0)
    IN IF ~wellFormed THEN [ok |-> FALSE, value |-> 0]
       ELSE [ok |-> TRUE,
             value |-> IF signed /\ SubSeq(t, 1, 1) = "-" THEN 0 - magnitude ELSE magnitude]

RECURSIVE NatToStr(_)
NatToStr(n) ==
    IF n < 10 THEN SubSeq(Digits, n + 1, n + 1)
    ELSE NatToStr(n \div 10) \o SubSeq(Digits, (n % 10) + 1, (n % 10) + 1)

\* str(v), as an f-string or str.format renders a value
StrOf(v) ==
    CASE v[1] = "str" -> v[2]
      [] v[1] = "int" -> IF v[2] < 0 THEN "-" \o NatToStr(0 - v[2]) ELSE NatToStr(v[2])
      [] v[1] = "bool" -> IF v[2] THEN "True" ELSE "False"
      [] OTHER -> "None"

RECURSIVE Join(_, _)
\* sep.join(parts)
Join(parts, sep) ==
    IF Len(parts) = 0 THEN ""
    ELSE IF Len(parts) = 1 THEN parts[1]
    ELSE parts[1] \o sep \o Join(Tail(parts), sep)

----------------------------------------------------------------------------
(* urllib.parse *)

\* A server URL as urlparse returns it: scheme (lower case), hostname, port,
\* username and password (VNone when the URL has none), path and query.
Url(scheme, netloc, path, query) ==
    [scheme |-> scheme, hostname |-> netloc.hostname, port |-> netloc.port,
     username |-> netloc.username, password |-> netloc.password,
     path |-> path, query |-> query]

RECURSIVE QsPairs(_, _)
\* parse_qsl(query): the name=value fields between '&', in order; a field with
\* no '=' or with a blank value is dropped (keep_blank_values is False)
QsPairs(fields, i) ==
    IF i > Len(fields) THEN <<>>
    ELSE LET nv == SplitOnce(fields[i], "=")
         IN (IF Len(nv) = 2 /\ Len(nv[2]) > 0 THEN <<nv>> ELSE <<>>) \o QsPairs(fields, i + 1)

\* parse_qs(query): each name with the list of its values, in order
ParseQs(query) ==
    LET pairs == QsPairs(Split(query, "&"), 1)
        names == {pairs[i][1] : i \in 1..Len(pairs)}
    IN [name \in names |-> SelectSeq(pairs, LAMBDA nv : nv[1] = name)]

----------------------------------------------------------------------------
(* DABRedisCluster.mget *)

SlotErrorText == "MGET - all keys must map to the same key slot"

\* the except clause's test of the exception the atomic mget raised
\* (variant: any RedisClusterException taken for the key-slot error)
IsSlotErrorAny(e) == e.type = "RedisClusterException"
IsSlotError(e) == e.type = "RedisClusterException" /\ In(SlotErrorText, e.msg)

\* mget(*args): outcome of super().mget is `atomic`, that of
\* super().mget_nonatomic, were it called, is `nonatomic`.  Returns the calls
\* made on the superclass, in order, and the call's outcome.
DABMget(args, atomic, nonatomic) ==
    IF atomic.kind = "return"
    THEN [calls |-> <<<<"mget", args>>>>, outcome |-> atomic]
    ELSE IF IsSlotError(atomic)
         THEN [calls |-> <<<<"mget", args>>, <<"mget_nonatomic", args>>>>, outcome |-> nonatomic]
         ELSE [calls |-> <<<<"mget", args>>>>, outcome |-> atomic]

----------------------------------------------------------------------------
(* RedisClient *)

NoUrl == Url("", [hostname |-> VNone, port |-> VNone, username |-> VNone, password |-> VNone], "", "")

\* The local state of one connect call.  kwargs is a reference: "own" names the
\* call's own dict (own), "shared" names CLIENT_CLASS_KWARGS itself.
IdleFrame ==
    [pc |-> "idle", url |-> NoUrl, kwargs |-> "own", own |-> EmptyDict,
     startup_nodes |-> <<>>, log |-> <<>>, raised |-> VNone, client |-> VNone]

\* A call's view: the shared settings and its frame.
Kwargs(s) == IF s.f.kwargs = "shared" THEN s.opts ELSE s.f.own
SetKwargs(s, d) ==
    IF s.f.kwargs = "shared" THEN [s EXCEPT !.opts = d] ELSE [s EXCEPT !.f.own = d]
Goto(s, pc) == [s EXCEPT !.f.pc = pc]
Raise(s, msg) == [s EXCEPT !.f.pc = "raised", !.f.raised = <<"ImproperlyConfigured", msg>>]
Log(s, level, msg) == [s EXCEPT !.f.log = Append(@, <<level, msg>>)]

\* kwargs = copy.deepcopy(self._get_client_args())
\* (variant: kwargs bound to the settings themselves, no copy)
CopyArgsAliased(s) == Goto([s EXCEPT !.f.kwargs = "shared"], "pop")
CopyArgs(s) == Goto([s EXCEPT !.f.kwargs = "own", !.f.own = s.opts], "pop")

\* kwargs.pop('clustered', None); kwargs.pop('clustered_hosts', None)
PopSettings(s) == Goto(SetKwargs(s, Pop(Pop(Kwargs(s), "clustered"), "clustered_hosts")), "url")

SocketSchemes == {"file", "unix"}
\* (variant: one more scheme let into the redis branch)
RedisSchemesWide == {"redis", "rediss", "http"}
RedisSchemes == {"redis", "rediss"}

UrlAttributes ==
    <<<<"host", "hostname">>, <<"port", "port">>, <<"username", "username">>, <<"password", "password">>>>

RECURSIVE CopyUrlAttributes(_, _, _)
\* for arg_name, parse_name in [...]: if attribute: kwargs[arg_name] = attribute
CopyUrlAttributes(d, url, i) ==
    IF i > Len(UrlAttributes) THEN d
    ELSE LET attribute == url[UrlAttributes[i][2]]
         IN CopyUrlAttributes(IF Truthy(attribute) THEN Put(d, UrlAttributes[i][1], attribute) ELSE d,
                              url, i + 1)

\* try: kwargs['db'] = int(parsed_url.path.split('/')[1]) except (IndexError, ValueError): pass
\* (variant: db defaulting to 0 where the segment is absent or no integer)
DbFromPathZero(d, path) ==
    LET parts == Split(path, "/")
    IN IF Len(parts) < 2 THEN Put(d, "db", VInt(0))
       ELSE LET n == ToInt(parts[2])
            IN IF n.ok THEN Put(d, "db", VInt(n.value)) ELSE Put(d, "db", VInt(0))
DbFromPath(d, path) ==
    LET parts == Split(path, "/")
    IN IF Len(parts) < 2 THEN d
       ELSE LET n == ToInt(parts[2])
            IN IF n.ok THEN Put(d, "db", VInt(n.value)) ELSE d

SchemeError == "This redis client can only accept file, unix, redis or rediss URLs"

\* the scheme branches of connect
\* (variant: the socket branch also setting a host)
SocketKwargsWithHost(d, url) == Put(Put(d, "unix_socket_path", VStr(url.path)), "host", VStr("localhost"))
SocketKwargs(d, url) == Put(d, "unix_socket_path", VStr(url.path))

ParseUrl(s) ==
    LET parsed_url == s.f.url
    IN IF parsed_url.scheme \in SocketSchemes
       THEN Goto(SetKwargs(s, SocketKwargs(Kwargs(s), parsed_url)), "query")
       ELSE IF parsed_url.scheme \in RedisSchemes
       THEN Goto(SetKwargs(s, DbFromPath(CopyUrlAttributes(Kwargs(s), parsed_url, 1), parsed_url.path)),
                 "query")
       ELSE Raise(s, SchemeError)

\* for key, value in parse_qs(parsed_url.query).items(): kwargs[key] = value[-1]
QueryValue(values) == VStr(values[Len(values)][2])

MergedQuery(d, query) ==
    LET qs == ParseQs(query)
    IN [k \in (DOMAIN d) \cup (DOMAIN qs) |-> IF k \in DOMAIN qs THEN QueryValue(qs[k]) ELSE d[k]]

MergeQuery(s) == Goto(SetKwargs(s, MergedQuery(Kwargs(s), s.f.url.query)), "ssl")

\* The files this process can read.
ReadableFiles == {"/ok"}
\* os.access(file, os.R_OK)
OsAccessR(file) == IsStr(file) /\ file[2] \in ReadableFiles

\* (variant: ssl_ca_certs left unchecked)
FileSettingsShort == <<"ssl_certfile", "ssl_keyfile">>
FileSettings == <<"ssl_certfile", "ssl_keyfile", "ssl_ca_certs">>

FileError(file, file_setting) ==
    "Unable to read file " \o StrOf(file) \o " from setting " \o file_setting

RECURSIVE CheckFiles(_, _)
\* for file_setting in [...]: the first unreadable file raises
CheckFiles(s, i) ==
    IF i > Len(FileSettings) THEN Goto(s, "build")
    ELSE LET file == Get(Kwargs(s), FileSettings[i], VNone)
         IN IF Truthy(file) /\ ~OsAccessR(file)
            THEN Raise(s, FileError(file, FileSettings[i]))
            ELSE CheckFiles(s, i + 1)

CheckSsl(s) ==
    IF Truthy(Get(Kwargs(s), "ssl", VNone)) THEN CheckFiles(s, 1) ELSE Goto(s, "build")

HostsError == "Unable to parse cluster_hosts, see logs for more details"

\* redis.cluster.ClusterNode(host, port)
ClusterNode(host, port) == [host |-> host, port |-> port]

\* kwargs.pop('host', None); kwargs.pop('port', None)
\* (variant: host left in the mapping)
DropPortOnly(d) == Pop(d, "port")
DropHostPort(d) == Pop(Pop(d, "host"), "port")

RECURSIVE ParseHostPortsLenient(_, _, _)
\* (variant: malformed tokens skipped instead of raising)
ParseHostPortsLenient(s, host_ports, i) ==
    IF i > Len(host_ports) THEN s
    ELSE LET parts == Split(host_ports[i], ":")
         IN IF Len(parts) = 2 /\ ToInt(parts[2]).ok
            THEN ParseHostPortsLenient(
                     [s EXCEPT !.f.startup_nodes = Append(@, ClusterNode(parts[1], ToInt(parts[2]).value))],
                     host_ports, i + 1)
            ELSE ParseHostPortsLenient(s, host_ports, i + 1)

\* the logged text of the two token errors
\* (variant: the log line without the token)
BadFormatLogQuiet(host_port) == "Specified cluster_host is not valid; it needs to be in the format <host>:<port>"
BadFormatLog(host_port) ==
    "Specified cluster_host " \o host_port \o " is not valid; it needs to be in the format <host>:<port>"
BadPortLog(host_port) == "Specified port on " \o host_port \o " is not an int"

RECURSIVE ParseHostPorts(_, _, _)
\* for host_port in host_ports: split on ':', int(port_string), ClusterNode(node, port)
ParseHostPorts(s, host_ports, i) ==
    IF i > Len(host_ports) THEN s
    ELSE LET host_port == host_ports[i]
             parts == Split(host_port, ":")
         IN IF Len(parts) # 2
            THEN Raise(Log(s, "error", BadFormatLog(host_port)), HostsError)
            ELSE LET port == ToInt(parts[2])
                 IN IF ~port.ok
                    THEN Raise(Log(s, "error", BadPortLog(host_port)), HostsError)
                    ELSE ParseHostPorts(
                             [s EXCEPT !.f.startup_nodes = Append(@, ClusterNode(parts[1], port.value))],
                             host_ports, i + 1)

\* DABRedisCluster(**kwargs) or Redis(**kwargs): the call returns the client
Construct(s, cls) == [s EXCEPT !.f.pc = "returned", !.f.client = <<cls, Kwargs(s)>>]

\* if self.clustered: ... else: ...
Build(s) ==
    IF Truthy(clustered)
    THEN LET s1 == Log(s, "debug", "Connecting to Redis clustered")
         IN IF Truthy(clustered_hosts)
            THEN LET s2 == SetKwargs(s1, DropHostPort(Kwargs(s1)))
                 IN IF ~IsStr(clustered_hosts)
                    THEN Raise(Log(s2, "error",
                                   "Specified clustered_hosts is not a string, got: " \o StrOf(clustered_hosts)),
                               HostsError)
                    ELSE LET s3 == ParseHostPorts(s2, Split(clustered_hosts[2], ","), 1)
                         IN IF s3.f.pc = "raised" THEN s3
                            ELSE Construct(SetKwargs(s3, Put(Kwargs(s3), "startup_nodes",
                                                             VList(s3.f.startup_nodes))),
                                           "DABRedisCluster")
            ELSE Construct(s1, "DABRedisCluster")
    ELSE Construct(Log(s, "debug", "Connecting to Redis standalone"), "Redis")

Finished == {"returned", "raised"}

\* one statement group of connect
Step(s) ==
    CASE s.f.pc = "copy" -> CopyArgs(s)
      [] s.f.pc = "pop" -> PopSettings(s)
      [] s.f.pc = "url" -> ParseUrl(s)
      [] s.f.pc = "query" -> MergeQuery(s)
      [] s.f.pc = "ssl" -> CheckSsl(s)
      [] s.f.pc = "build" -> Build(s)
      [] OTHER -> s

RECURSIVE Run(_)
\* connect from s to its return or raise
Run(s) == IF s.f.pc \in Finished THEN s ELSE Run(Step(s))

\* the frame of connect(index) as the call starts
NewFrame(index) == [IdleFrame EXCEPT !.pc = "copy", !.url = server[index]]

----------------------------------------------------------------------------
(* Operations *)

\* RedisClient.__init__ with CLIENT_CLASS_KWARGS = kw and servers urls
NewClient(kw, urls, callers) ==
    /\ options = kw
    /\ initial_kwargs = kw
    /\ clustered = Get(kw, "clustered", VBool(FALSE))
    /\ clustered_hosts = Get(kw, "clustered_hosts", VStr(""))
    /\ server = urls
    /\ threads = callers
    /\ frames = [t \in callers |-> IdleFrame]
    /\ mget_call = [args |-> <<>>, atomic |-> [kind |-> "none", type |-> "", msg |-> "", value |-> <<>>],
                    nonatomic |-> [kind |-> "none", type |-> "", msg |-> "", value |-> <<>>],
                    calls |-> <<>>,
                    outcome |-> [kind |-> "none", type |-> "", msg |-> "", value |-> <<>>]]

\* connect(index), run by thread t from call to return or raise
Connect(t, index) ==
    /\ frames[t].pc \in Finished \cup {"idle"}
    /\ LET r == Run([opts |-> options, f |-> NewFrame(index)])
       IN /\ options' = r.opts
          /\ frames' = [frames EXCEPT ![t] = r.f]
    /\ UNCHANGED <<initial_kwargs, clustered, clustered_hosts, server, threads, mget_call>>

\* thread t enters connect(index)
Call(t, index) ==
    /\ frames[t].pc \in Finished \cup {"idle"}
    /\ frames' = [frames EXCEPT ![t] = NewFrame(index)]
    /\ UNCHANGED <<options, initial_kwargs, clustered, clustered_hosts, server, threads, mget_call>>

\* thread t runs the next statement group of its connect call
ConnectStep(t) ==
    /\ frames[t].pc \notin Finished \cup {"idle"}
    /\ LET r == Step([opts |-> options, f |-> frames[t]])
       IN /\ options' = r.opts
          /\ frames' = [frames EXCEPT ![t] = r.f]
    /\ UNCHANGED <<initial_kwargs, clustered, clustered_hosts, server, threads, mget_call>>

\* what the superclass's mget and mget_nonatomic may do
Return(value) == [kind |-> "return", type |-> "", msg |-> "", value |-> value]
Raises(type, msg) == [kind |-> "raise", type |-> type, msg |-> msg, value |-> <<>>]

\* mget(*args) on the cluster client thread t's connect returned
Mget(t, args, atomic, nonatomic) ==
    /\ frames[t].pc = "returned"
    /\ frames[t].client[1] = "DABRedisCluster"
    /\ LET r == DABMget(args, atomic, nonatomic)
       IN mget_call' = [args |-> args, atomic |-> atomic, nonatomic |-> nonatomic,
                        calls |-> r.calls, outcome |-> r.outcome]
    /\ UNCHANGED <<options, initial_kwargs, clustered, clustered_hosts, server, threads, frames>>

----------------------------------------------------------------------------
(* The settings and URLs the client is constructed with *)

MaxQuery == 2     \* query-string fields per URL
MaxTokens == 2    \* tokens per clustered_hosts list

SeqsUpTo(S, n) == UNION {[1..k -> S] : k \in 0..n}

Schemes == {"unix", "file", "redis", "rediss", "http", ""}

NoNetloc == [hostname |-> VNone, port |-> VNone, username |-> VNone, password |-> VNone]
FullNetloc == [hostname |-> VStr("h"), port |-> VInt(6379), username |-> VStr("u"), password |-> VStr("p")]
ZeroPortNetloc == [hostname |-> VStr("h"), port |-> VInt(0), username |-> VNone, password |-> VNone]
Netlocs == {NoNetloc, FullNetloc, ZeroPortNetloc}

\* URL paths: none, or from the '/' that follows the host
Paths == {"", "/1", "/x", "/12/x"}

QueryFields == {"db=5", "host=q", "ssl=1", "ssl_certfile=/bad", "clustered=1", "unix_socket_path=/q"}
Queries == {Join(q, "&") : q \in SeqsUpTo(QueryFields, MaxQuery)}

\* the network locations tried with each scheme: a port of 0 only where the
\* scheme's branch reads the port, a host always with a scheme that has no branch
NetlocsOf(scheme) ==
    CASE scheme \in {"redis", "rediss"} -> Netlocs
      [] scheme \in {"unix", "file"} -> {NoNetloc, FullNetloc}
      [] OTHER -> {FullNetloc}

Urls == UNION {{Url(scheme, netloc, path, query) :
                   netloc \in NetlocsOf(scheme), path \in Paths, query \in Queries} :
               scheme \in Schemes}

\* CLIENT_CLASS_KWARGS: the connection settings, without the cluster settings
BaseBags ==
    {EmptyDict,
     [host |-> VStr("oh"), port |-> VInt(1), db |-> VInt(2)],
     [ssl |-> VBool(TRUE), ssl_certfile |-> VStr("/ok"), ssl_keyfile |-> VStr("/bad"),
      ssl_ca_certs |-> VStr("/bad2")],
     [ssl |-> VBool(FALSE), ssl_ca_certs |-> VStr("/bad")],
     [ssl |-> VBool(TRUE), ssl_certfile |-> VStr(""), ssl_keyfile |-> VNone, ssl_ca_certs |-> VStr("/ok")]}

\* CLIENT_CLASS_KWARGS: the cluster settings
ClusterBags ==
    {EmptyDict,
     [clustered |-> VBool(TRUE)],
     [clustered |-> VBool(TRUE), clustered_hosts |-> VStr("a:1,b:22")]}

OptionBags == {base @@ cluster : base \in BaseBags, cluster \in ClusterBags}

Tokens == {"a:1", "b:22", "bad", "a:x", "a:1:2"}
HostLists == {Join(l, ",") : l \in SeqsUpTo(Tokens, MaxTokens)}

ClusterHostBags ==
    {[clustered |-> VBool(TRUE), clustered_hosts |-> VStr(hosts)] : hosts \in HostLists}
        \cup {[clustered |-> VBool(TRUE), clustered_hosts |-> VInt(7)],
              [clustered |-> VBool(FALSE), clustered_hosts |-> VStr("a:1")],
              [clustered |-> VBool(TRUE)]}

ClusterOptionBags ==
    {base @@ cluster : base \in {EmptyDict, [host |-> VStr("oh"), port |-> VInt(1), db |-> VInt(2)]},
                       cluster \in ClusterHostBags}

ClusterUrls ==
    {Url("redis", FullNetloc, "/1", "host=q"),
     Url("unix", NoNetloc, "/sock", ""),
     Url("http", FullNetloc, "", ""),
     Url("rediss", FullNetloc, "", "ssl=1&ssl_certfile=/bad")}

ThreadOptionBags ==
    {[host |-> VStr("oh"), clustered |-> VBool(TRUE), clustered_hosts |-> VStr("a:1,b:22")],
     [db |-> VInt(2), clustered |-> VBool(FALSE)],
     [ssl |-> VBool(TRUE), ssl_keyfile |-> VStr("/bad"), clustered |-> VBool(TRUE),
      clustered_hosts |-> VStr("a:1,bad")]}

ThreadUrls ==
    {Url("redis", FullNetloc, "/1", "db=5&clustered=1"),
     Url("unix", NoNetloc, "/sock", ""),
     Url("http", FullNetloc, "", "")}

\* mget's arguments and what the superclass may answer
MgetArgs == {<<"k1">>, <<"k1", "k2">>}
Values(args) == [i \in 1..Len(args) |-> "v-" \o args[i]]
AtomicOutcomes(args) ==
    {Return(Values(args)),
     Raises("RedisClusterException", SlotErrorText),
     Raises("RedisClusterException", "Redis Cluster cannot be connected"),
     Raises("ResponseError", SlotErrorText),
     Raises("ConnectionError", "Connection refused")}
NonatomicOutcomes(args) ==
    {Return(Values(args)), Raises("ConnectionError", "Connection refused")}

----------------------------------------------------------------------------
(* Specifications *)

\* one caller, connect run as a whole; every URL shape
Init == \E kw \in OptionBags, url \in Urls : NewClient(kw, <<url>>, {"t1"})
Next == \E t \in threads, index \in 1..Len(server) : Connect(t, index)
Spec == Init /\ [][Next]_vars

\* one caller, every clustered_hosts list; mget on the returned cluster client
InitCluster == \E kw \in ClusterOptionBags, url \in ClusterUrls : NewClient(kw, <<url>>, {"t1"})
NextCluster ==
    \/ \E t \in threads, index \in 1..Len(server) : Connect(t, index)
    \/ \E t \in threads, args \in MgetArgs :
          \E atomic \in AtomicOutcomes(args), nonatomic \in NonatomicOutcomes(args) :
              Mget(t, args, atomic, nonatomic)
SpecCluster == InitCluster /\ [][NextCluster]_vars

\* two callers interleaving the statements of connect on the same client
InitThreads ==
    \E kw \in ThreadOptionBags, u1 \in ThreadUrls, u2 \in ThreadUrls :
        NewClient(kw, <<u1, u2>>, {"t1", "t2"})
NextThreads ==
    \/ \E t \in threads, index \in 1..Len(server) : Call(t, index)
    \/ \E t \in threads : ConnectStep(t)
SpecThreads == InitThreads /\ [][NextThreads]_vars

----------------------------------------------------------------------------
(* Vocabulary of the properties *)

Returned(t) == frames[t].pc = "returned"
Raised(t) == frames[t].pc = "raised"
Done(t) == frames[t].pc \in Finished

\* the keyword arguments the constructor was called with
Passed(t) == frames[t].client[2]
\* the message of the exception connect raised
Message(t) == frames[t].raised[2]

SupportedSchemes == {"file", "unix", "redis", "rediss"}

\* the query string's value for name: the last one given, blank values not counting
InQuery(url, name) == name \in DOMAIN ParseQs(url.query)
QueryLast(url, name) ==
    LET values == ParseQs(url.query)[name] IN VStr(values[Len(values)][2])

\* a setting as CLIENT_CLASS_KWARGS and the query string resolve it
Resolved(url, name) ==
    IF InQuery(url, name) THEN QueryLast(url, name) ELSE Get(initial_kwargs, name, VNone)
Supplied(url, name) == InQuery(url, name) \/ name \in DOMAIN initial_kwargs

\* the text between the path's leading '/' and its next '/'
HasFirstSegment(path) == Len(path) >= 1 /\ SubSeq(path, 1, 1) = "/"
FirstSegment(path) ==
    LET rest == SubSeq(path, 2, Len(path))
        j == Find(rest, "/", 1)
    IN IF j = 0 THEN rest ELSE SubSeq(rest, 1, j - 1)
PathDb(path) == HasFirstSegment(path) /\ ToInt(FirstSegment(path)).ok

\* clustered mode with a non-empty clustered_hosts string, and its tokens
HostListMode == Truthy(clustered) /\ IsStr(clustered_hosts) /\ clustered_hosts[2] # ""
HostPorts == Split(clustered_hosts[2], ",")
Malformed(token) ==
    LET parts == Split(token, ":") IN Len(parts) # 2 \/ ~ToInt(parts[2]).ok
SomeMalformed == \E i \in 1..Len(HostPorts) : Malformed(HostPorts[i])
FirstMalformed ==
    CHOOSE i \in 1..Len(HostPorts) :
        Malformed(HostPorts[i]) /\ \A j \in 1..(i - 1) : ~Malformed(HostPorts[j])
NodeOf(token) ==
    LET parts == Split(token, ":") IN [host |-> parts[1], port |-> ToInt(parts[2]).value]

IsFileError(msg) == In("Unable to read file", msg)
TlsFileSettings == {"ssl_certfile", "ssl_keyfile", "ssl_ca_certs"}
UnreadableSettings(url) ==
    {k \in TlsFileSettings : Truthy(Resolved(url, k)) /\ ~OsAccessR(Resolved(url, k))}

----------------------------------------------------------------------------
(* Properties *)

\* C1: whatever the URL, its query string and the options, the keyword arguments
\* handed to the Redis or DABRedisCluster constructor hold neither the key
\* clustered nor the key clustered_hosts.
C1_NoClusterKeysReachConstructor ==
    \A t \in threads :
        Returned(t) => "clustered" \notin DOMAIN Passed(t) /\ "clustered_hosts" \notin DOMAIN Passed(t)

\* C2 as stated: for a unix or file URL, any options and any query string, the
\* resolved mapping has no host, no port, and unix_socket_path is the URL path.
C2_SocketNeverHostPort ==
    \A t \in threads :
        Returned(t) /\ frames[t].url.scheme \in SocketSchemes =>
            /\ "host" \notin DOMAIN Passed(t)
            /\ "port" \notin DOMAIN Passed(t)
            /\ Passed(t)["unix_socket_path"] = VStr(frames[t].url.path)

\* C2 amended: for a unix or file URL the URL's own components add no host and
\* no port: the resolved mapping has host (port) exactly when the options or the
\* query string supply it and the call is not in clustered mode with a non-empty
\* clustered_hosts, with the query string's last value before the options'
\* value; unix_socket_path is the URL path unless the query string gives a
\* unix_socket_path, whose last value it then is.
C2_SocketHostPortOnlyAsSupplied ==
    \A t \in threads :
        Returned(t) /\ frames[t].url.scheme \in SocketSchemes =>
            LET url == frames[t].url IN
            /\ \A k \in {"host", "port"} :
                  /\ k \in DOMAIN Passed(t) <=>
                        Supplied(url, k) /\ ~(Truthy(clustered) /\ Truthy(clustered_hosts))
                  /\ k \in DOMAIN Passed(t) => Passed(t)[k] = Resolved(url, k)
            /\ Passed(t)["unix_socket_path"] =
                  IF InQuery(url, "unix_socket_path") THEN QueryLast(url, "unix_socket_path")
                  ELSE VStr(url.path)

\* C2 witness: a unix URL connected with a host in the options, which stays in
\* the mapping beside the socket path.
C2_Witness ==
    \E t \in threads :
        /\ Returned(t)
        /\ frames[t].url.scheme = "unix"
        /\ "host" \in DOMAIN initial_kwargs
        /\ "host" \in DOMAIN Passed(t)
        /\ Passed(t)["unix_socket_path"] = VStr(frames[t].url.path)
        /\ frames[t].url.path # ""

\* C3 as stated: for a redis or rediss URL, any options and any query string, db
\* is the integer first path segment when there is one, and absent otherwise.
C3_DbOnlyFromPath ==
    \A t \in threads :
        Returned(t) /\ frames[t].url.scheme \in RedisSchemes =>
            IF PathDb(frames[t].url.path)
            THEN /\ "db" \in DOMAIN Passed(t)
                 /\ Passed(t)["db"] = VInt(ToInt(FirstSegment(frames[t].url.path)).value)
            ELSE "db" \notin DOMAIN Passed(t)

\* C3 amended: for a redis or rediss URL, db is the query string's last db value
\* (a string) when the query string has one; otherwise the integer first path
\* segment when it is present and parses; otherwise the options' db when the
\* options have one; otherwise absent.
C3_DbQueryThenPathThenOptions ==
    \A t \in threads :
        Returned(t) /\ frames[t].url.scheme \in RedisSchemes =>
            LET url == frames[t].url IN
            IF InQuery(url, "db")
            THEN "db" \in DOMAIN Passed(t) /\ Passed(t)["db"] = QueryLast(url, "db")
            ELSE IF PathDb(url.path)
            THEN /\ "db" \in DOMAIN Passed(t)
                 /\ Passed(t)["db"] = VInt(ToInt(FirstSegment(url.path)).value)
            ELSE IF "db" \in DOMAIN initial_kwargs
            THEN "db" \in DOMAIN Passed(t) /\ Passed(t)["db"] = initial_kwargs["db"]
            ELSE "db" \notin DOMAIN Passed(t)

\* C3 witness: a redis URL with path /12/x and options that hold another db:
\* the mapping's db is 12.
C3_Witness ==
    \E t \in threads :
        /\ Returned(t)
        /\ frames[t].url.scheme = "redis"
        /\ frames[t].url.path = "/12/x"
        /\ "db" \in DOMAIN initial_kwargs
        /\ Passed(t)["db"] = VInt(12)

\* C4: connect leaves CLIENT_CLASS_KWARGS as it was at construction, whatever
\* the interleaving of the callers' statements and whether calls return or
\* raise, and every finished call ends as it would had it run alone on the
\* initial settings.
C4_OptionsUnchanged ==
    /\ options = initial_kwargs
    /\ \A t \in threads :
          Done(t) =>
              frames[t] = Run([opts |-> initial_kwargs,
                               f |-> [IdleFrame EXCEPT !.pc = "copy", !.url = frames[t].url]]).f

\* C4 witness: two callers have finished on different URLs, one with a client
\* and one with an error, and the settings hold cluster keys and no host key.
C4_Witness ==
    /\ "clustered_hosts" \in DOMAIN initial_kwargs
    /\ "db" \notin DOMAIN initial_kwargs
    /\ Returned("t1")
    /\ Raised("t2")
    /\ "db" \in DOMAIN Passed("t1")
    /\ frames["t1"].url # frames["t2"].url

\* C5 as stated: with a malformed token anywhere in the list, connect raises
\* before any ClusterNode is constructed and constructs no client.
C5_NoNodeBeforeFailure ==
    \A t \in threads :
        Done(t) /\ HostListMode /\ SomeMalformed =>
            /\ Raised(t)
            /\ frames[t].raised[1] = "ImproperlyConfigured"
            /\ frames[t].client = VNone
            /\ frames[t].startup_nodes = <<>>

\* C5 amended: with a malformed token anywhere in the list, connect raises
\* ImproperlyConfigured and constructs no client; the ClusterNodes constructed
\* are those of the well-formed tokens before the first malformed one, in order
\* (none when the call already failed on the scheme or a TLS file).
C5_NodesOnlyBeforeFirstMalformed ==
    \A t \in threads :
        Done(t) /\ HostListMode /\ SomeMalformed =>
            /\ Raised(t)
            /\ frames[t].raised[1] = "ImproperlyConfigured"
            /\ frames[t].client = VNone
            /\ Len(frames[t].startup_nodes) =
                  (IF Message(t) = HostsError THEN FirstMalformed - 1 ELSE 0)
            /\ \A i \in 1..Len(frames[t].startup_nodes) :
                  frames[t].startup_nodes[i] = NodeOf(HostPorts[i])
            /\ Message(t) = HostsError <=>
                  (frames[t].url.scheme \in SupportedSchemes /\ ~IsFileError(Message(t)))

\* C5 witness: the list's second token is the malformed one, and the call
\* failed on it after constructing one node.
C5_Witness ==
    \E t \in threads :
        /\ Raised(t)
        /\ HostListMode
        /\ SomeMalformed
        /\ FirstMalformed = 2
        /\ Message(t) = HostsError
        /\ Len(frames[t].startup_nodes) = 1

\* C6: in clustered mode with a non-empty well-formed clustered_hosts, a
\* supported scheme and no TLS file error, connect constructs the cluster client
\* with startup_nodes the list's (host, integer port) pairs in order, and the
\* mapping holds neither host nor port, whatever the URL and query string said.
C6_SeedNodesReplaceHostPort ==
    \A t \in threads :
        Done(t) /\ HostListMode /\ ~SomeMalformed =>
            IF Raised(t)
            THEN frames[t].url.scheme \notin SupportedSchemes \/ IsFileError(Message(t))
            ELSE /\ frames[t].client[1] = "DABRedisCluster"
                 /\ Passed(t)["startup_nodes"][1] = "list"
                 /\ Len(Passed(t)["startup_nodes"][2]) = Len(HostPorts)
                 /\ \A i \in 1..Len(HostPorts) :
                       Passed(t)["startup_nodes"][2][i] = NodeOf(HostPorts[i])
                 /\ "host" \notin DOMAIN Passed(t)
                 /\ "port" \notin DOMAIN Passed(t)

\* C6 witness: a cluster client built from two tokens although the URL has a
\* host and a port and the query string another host.
C6_Witness ==
    \E t \in threads :
        /\ Returned(t)
        /\ HostListMode
        /\ Len(HostPorts) = 2
        /\ Truthy(frames[t].url.hostname)
        /\ Truthy(frames[t].url.port)
        /\ InQuery(frames[t].url, "host")
        /\ Len(Passed(t)["startup_nodes"][2]) = 2

\* C7: mget calls the atomic mget first; it calls mget_nonatomic, once, with the
\* same arguments and as the call's outcome, exactly when the atomic mget raised
\* a RedisClusterException whose message holds the key-slot text; otherwise the
\* atomic mget's result or error is the outcome.
C7_FallbackOnlyOnSlotError ==
    mget_call.calls # <<>> =>
        LET slotError ==
                /\ mget_call.atomic.kind = "raise"
                /\ mget_call.atomic.type = "RedisClusterException"
                /\ In("all keys must map to the same key slot", mget_call.atomic.msg)
        IN /\ mget_call.calls[1] = <<"mget", mget_call.args>>
           /\ IF slotError
              THEN /\ Len(mget_call.calls) = 2
                   /\ mget_call.calls[2] = <<"mget_nonatomic", mget_call.args>>
                   /\ mget_call.outcome = mget_call.nonatomic
              ELSE /\ Len(mget_call.calls) = 1
                   /\ mget_call.outcome = mget_call.atomic

\* C7 witness: the atomic mget raised the key-slot error and the values came
\* from mget_nonatomic.
C7_Witness ==
    /\ Len(mget_call.calls) = 2
    /\ mget_call.atomic.kind = "raise"
    /\ mget_call.outcome.kind = "return"
    /\ Len(mget_call.args) = 2

\* C8: for a supported scheme, when ssl resolves truthy (options overridden by
\* the query string) and one of ssl_certfile, ssl_keyfile, ssl_ca_certs names an
\* unreadable file, connect raises ImproperlyConfigured naming such a file and
\* its setting and constructs no client; otherwise no TLS file error is raised.
C8_UnreadableTlsFileFails ==
    \A t \in threads :
        Done(t) /\ frames[t].url.scheme \in SupportedSchemes =>
            LET url == frames[t].url IN
            IF Truthy(Resolved(url, "ssl")) /\ UnreadableSettings(url) # {}
            THEN /\ Raised(t)
                 /\ frames[t].raised[1] = "ImproperlyConfigured"
                 /\ frames[t].client = VNone
                 /\ IsFileError(Message(t))
                 /\ \E k \in UnreadableSettings(url) :
                       In(Resolved(url, k)[2], Message(t)) /\ In(k, Message(t))
            ELSE ~(Raised(t) /\ IsFileError(Message(t)))

\* C8 witness: ssl was switched on by the query string only, and the call
\* failed on a file the options name.
C8_Witness ==
    \E t \in threads :
        /\ Raised(t)
        /\ IsFileError(Message(t))
        /\ ~Truthy(Get(initial_kwargs, "ssl", VNone))
        /\ InQuery(frames[t].url, "ssl")
        /\ ~InQuery(frames[t].url, "ssl_certfile")

\* C9: for a scheme other than file, unix, redis and rediss (the empty one
\* included), whatever the options, query string and cluster settings, connect
\* raises ImproperlyConfigured and constructs no client.
C9_UnsupportedSchemeFails ==
    \A t \in threads :
        Done(t) /\ frames[t].url.scheme \notin SupportedSchemes =>
            /\ Raised(t)
            /\ frames[t].raised[1] = "ImproperlyConfigured"
            /\ frames[t].client = VNone
            /\ frames[t].startup_nodes = <<>>

\* C9 witness: the empty scheme, in clustered mode with a host list and a query
\* string, raised.
C9_Witness ==
    \E t \in threads :
        /\ Raised(t)
        /\ frames[t].url.scheme = ""
        /\ frames[t].url.query # ""
        /\ Truthy(clustered)
        /\ Truthy(clustered_hosts)

\* C10 as stated: every ImproperlyConfigured message carries the offending
\* value or the file and setting: a malformed token is identified in the
\* message, and an unreadable TLS file is named with its setting.
C10_MessageNamesOffender ==
    \A t \in threads :
        Raised(t) /\ frames[t].url.scheme \in SupportedSchemes =>
            IF IsFileError(Message(t))
            THEN \E k \in UnreadableSettings(frames[t].url) :
                     In(Resolved(frames[t].url, k)[2], Message(t)) /\ In(k, Message(t))
            ELSE HostListMode /\ SomeMalformed => In(HostPorts[FirstMalformed], Message(t))

\* C10 amended: an unreadable TLS file's error names the file and the setting in
\* its message; a malformed clustered_hosts token raises the fixed message
\* "Unable to parse cluster_hosts, see logs for more details" and the offending
\* token is identified only in the error-level log line written just before
\* (as is a clustered_hosts that is no string); an unsupported scheme raises the
\* fixed message listing the accepted schemes.
C10_TokenNamedInLogOnly ==
    \A t \in threads :
        Raised(t) =>
            LET url == frames[t].url
                lastLog == frames[t].log[Len(frames[t].log)]
            IN IF url.scheme \notin SupportedSchemes THEN Message(t) = SchemeError
               ELSE IF IsFileError(Message(t))
               THEN \E k \in UnreadableSettings(url) :
                        In(Resolved(url, k)[2], Message(t)) /\ In(k, Message(t))
               ELSE /\ Message(t) = "Unable to parse cluster_hosts, see logs for more details"
                    /\ Truthy(clustered)
                    /\ Truthy(clustered_hosts)
                    /\ lastLog[1] = "error"
                    /\ IF IsStr(clustered_hosts)
                       THEN SomeMalformed /\ In(HostPorts[FirstMalformed], lastLog[2])
                       ELSE In(StrOf(clustered_hosts), lastLog[2])

\* C10 witness: a call failed on the malformed second token of the list.
C10_Witness ==
    \E t \in threads :
        /\ Raised(t)
        /\ HostListMode
        /\ SomeMalformed
        /\ FirstMalformed = 2
        /\ Len(Split(HostPorts[2], ":")) = 1
        /\ Message(t) = HostsError

====
